---- MODULE Spec2Model ----
\* Model of the dialect transcription service: the environment registry
\* (SupabaseService.__init__/get_client), the record accessor (get_memo,
\* update_memo_status, download_audio), the transcription client
\* (TranscriptionService.transcribe) and the HTTP handlers of app/main.py
\* (transcribe_audio, retry_transcription, transcribe_from_url).
\* Every external call (backend query, blob download, transcription API) is
\* one step of the invocation that issues it and may succeed or fail.
\* An invocation keeps a log of the external operations it issued; the step
\* on which it answers its caller publishes request, response and log in
\* `out` and frees the worker.
EXTENDS Integers, Sequences, FiniteSets, TLC

\* ---------------------------------------------------------------- bounds
\* requests accepted over a run
MaxInvocations == 2

\* the workers that run invocations concurrently
Procs == {1, 2}

\* ------------------------------------------------------------- constants
None == "None"
Omitted == "Omitted"

\* insertion order of self.clients in SupabaseService.__init__
EnvOrder == <<"production", "staging", "local">>
Envs == {EnvOrder[i] : i \in 1..Len(EnvOrder)}

\* values of the process-wide ENV setting
SystemEnvs == {"production", "staging", "development"}

\* what the body of /transcribe and /retry-transcribe says about the
\* environment: nothing, null, or a literal (an explicit "production" parses
\* to the same request as an omitted one)
RequestEnvironments == {Omitted, None, "staging"}

\* environment strings the body of /transcribe_url is tried with
UrlEnvNames == {"PRODUCTION", "qa", ""}

ExistingIds == {"m1"}
MemoIds == {"m1", "m2"}
InitialStatuses == {"pending", "error"}
Texts == {"text"}

\* values of the recordType member a request body is sent with
RecordTypes == {"memos", "memo_replies"}
NoTranscript == "None"

NoExc == [type |-> "none", at |-> "none", wraps |-> "none"]
NoReq == [kind |-> "none", memoId |-> None, environment |-> None,
          recordType |-> None]
NoResp == [status |-> 0, success |-> FALSE, memoId |-> None, error |-> "none",
           message |-> NoExc, transcript |-> NoTranscript]

\* a worker that runs no invocation
IdleInv == [pc |-> "idle", req |-> NoReq, env |-> None, memo |-> None,
            path |-> 0, transcript |-> NoTranscript, e |-> NoExc, log |-> <<>>]

NoOut == [req |-> NoReq, response |-> NoResp, log |-> <<>>]

VARIABLES clients, default_environment, db, files, started, inv, out

vars == <<clients, default_environment, db, files, started, inv, out>>

registry == <<clients, default_environment>>

\* ------------------------------------------------------ pure operators
\* str.lower() on the environment names of the model
Lower(s) ==
    IF s = "PRODUCTION" THEN "production"
    ELSE IF s = "STAGING" THEN "staging" ELSE s

\* Python truthiness of an Optional[str]
Truthy(s) == s # None /\ s # ""

\* list(self.clients.keys())[0]: first configured name in insertion order
FirstConfigured(cl) ==
    EnvOrder[CHOOSE i \in 1..Len(EnvOrder) :
                /\ EnvOrder[i] \in cl
                /\ \A j \in 1..(i - 1) : EnvOrder[j] \notin cl]

\* (variant: no fallback to the first configured environment)
DefaultEnvironmentNoFallback(cl, system_env) ==
    IF Lower(system_env) \in cl THEN Lower(system_env) ELSE "production"

\* self.default_environment as computed at construction: ENV lower-cased when
\* a client exists for it, else 'production', else the first configured name
DefaultEnvironment(cl, system_env) ==
    LET d0 == IF Lower(system_env) \in cl THEN Lower(system_env) ELSE "production"
    IN  IF d0 \notin cl /\ cl # {} THEN FirstConfigured(cl) ELSE d0

\* (variant: an unconfigured name falls back to the default environment)
GetClientFallback(environment) ==
    LET e == Lower(IF Truthy(environment) THEN environment ELSE default_environment)
    IN  IF e \in clients
        THEN [ok |-> TRUE, env |-> e]
        ELSE [ok |-> default_environment \in clients, env |-> default_environment]

\* (variant: an omitted name always resolves, to the default environment)
GetClientDefaultAlways(environment) ==
    LET e == Lower(IF Truthy(environment) THEN environment ELSE default_environment)
    IN  [ok |-> e \in clients \/ ~Truthy(environment), env |-> e]

\* get_client: the resolved name and whether a client exists for it
GetClient(environment) ==
    LET e == Lower(IF Truthy(environment) THEN environment ELSE default_environment)
    IN  [ok |-> e \in clients, env |-> e]

Exc(type, at) == [type |-> type, at |-> at, wraps |-> "none"]

\* the exception that leaves get_memo / update_memo_status / download_audio
\* when get_client raised: the handler reads the unbound local `branch`
AccessorExc(at) == Exc("UnboundLocalError", at)

\* raise Exception(f"{error_type}: {str(e)}")
Annotate(e) == [type |-> "Exception", at |-> e.at, wraps |-> e.type]

\* (variant: the write replaces the transcript too, by none when none is given)
UpdateRowsReplace(d, e, id, status, text) ==
    IF id \in ExistingIds
    THEN [d EXCEPT ![e][id] = [@ EXCEPT !.status = status, !.transcript = text]]
    ELSE d

\* (variant: a record that is 'completed' is never written again)
UpdateRowsKeepCompleted(d, e, id, status, text) ==
    IF id \in ExistingIds /\ d[e][id].status # "completed"
    THEN [d EXCEPT ![e][id] =
            IF text # NoTranscript
            THEN [@ EXCEPT !.status = status, !.transcript = text]
            ELSE [@ EXCEPT !.status = status]]
    ELSE d

\* client.table("memos").update(update_data).eq("id", memo_id)
UpdateRows(d, e, id, status, text) ==
    IF id \in ExistingIds
    THEN [d EXCEPT ![e][id] =
            IF text # NoTranscript
            THEN [@ EXCEPT !.status = status, !.transcript = text]
            ELSE [@ EXCEPT !.status = status]]
    ELSE d

\* (variant: every failure is answered as a client error)
ErrorResponseBadRequest(id, status, code, e) ==
    [status |-> 400, success |-> FALSE, memoId |-> id, error |-> code,
     message |-> e, transcript |-> NoTranscript]

\* (variant: every failure carries the error code of the transcribe handler)
ErrorResponseOneCode(id, status, code, e) ==
    [status |-> status, success |-> FALSE, memoId |-> id,
     error |-> "processing_error", message |-> e, transcript |-> NoTranscript]

\* JSONResponse(status_code=..., content={"success": False, "error": ...,
\* "message": str(e), "memoId": ...})
ErrorResponse(id, status, code, e) ==
    [status |-> status, success |-> FALSE, memoId |-> id, error |-> code,
     message |-> e, transcript |-> NoTranscript]

\* {"success": True, "memoId": request.memoId, "transcript": transcript, ...}
SuccessResponse(id, text) ==
    [status |-> 200, success |-> TRUE, memoId |-> id, error |-> "none",
     message |-> NoExc, transcript |-> text]

\* the collection an operation of the record store works on: get_memo,
\* update_memo_status and check_connection name client.table("memos")
\* whatever the request says
TableOf(op) ==
    IF op \in {"fetch", "set_transcribing", "set_completed", "set_error", "ping"}
    THEN "memos" ELSE "none"

\* one external operation of an invocation: what, against which environment,
\* whether it succeeded, and its argument (status read, scratch file, text
\* returned)
Event(op, e, ok, arg) ==
    [op |-> op, env |-> e, ok |-> ok, arg |-> arg, table |-> TableOf(op)]

\* the audio reference stored in the row of a record
AudioUrl(id) == <<"audio_memos", id>>

\* the part of a fetched row the handlers read after the fetch: the status is
\* read at once by the retry gate, later steps read memo['audio_url'] only
Kept(row) == [audio_url |-> row.audio_url]

\* (variant: a record that is still pending may be retried too)
RetryableLax(status) == status \in {"error", "pending"}

\* (variant: the test of the retry gate inverted)
RetryableInverted(status) == status # "error"

\* retry gate: memo['status'] != "error" rejects the request
Retryable(status) == status = "error"

\* TranscriptionRequest: an omitted environment takes the field default
ParsedEnvironment(given) == IF given = Omitted THEN "production" ELSE given

\* env = request.environment; if not env: env = "production"
HandlerEnv(environment) == IF Truthy(environment) THEN environment ELSE "production"

\* environment = x_environment or request.get("environment", "production")
UrlEnvironment(header, body) ==
    IF Truthy(header) THEN header ELSE IF body = Omitted THEN "production" ELSE body

\* ------------------------------------------------------------------ Init
Init ==
    /\ clients \in SUBSET Envs
    /\ \E system_env \in SystemEnvs :
          default_environment = DefaultEnvironment(clients, system_env)
    /\ \E s \in InitialStatuses :
          db = [e \in Envs |-> [id \in ExistingIds |->
                  [status |-> s, transcript |-> NoTranscript,
                   audio_url |-> AudioUrl(id)]]]
    /\ files = {}
    /\ started = 0
    /\ inv = [p \in Procs |-> IdleInv]
    /\ out = NoOut

\* --------------------------------------------------------------- helpers
\* a request is taken by the lowest-numbered worker that runs none
Free(p) ==
    /\ inv[p].pc = "idle"
    /\ started < MaxInvocations
    /\ \A q \in Procs : q < p => inv[q].pc # "idle"

\* scratch files named in the log of an invocation
LogFiles(l) == {l[i].arg : i \in {j \in 1..Len(l) : l[j].op = "download"}}

\* tempfile.NamedTemporaryFile(delete=False, ...): a name no existing file
\* has (and none an invocation still refers to)
NewFile ==
    LET used == files \cup LogFiles(out.log)
                      \cup UNION {LogFiles(inv[q].log) : q \in Procs}
    IN  CHOOSE n \in 1..MaxInvocations :
           n \notin used /\ \A m \in 1..(n - 1) : m \in used

\* a new invocation on worker p
Begin(p, r, first) ==
    /\ started' = started + 1
    /\ inv' = [inv EXCEPT ![p] = [IdleInv EXCEPT !.pc = first, !.req = r]]
    /\ out' = NoOut

\* worker p goes on with its invocation: locals `next`, one more logged event
Continue(p, next, ev) ==
    /\ inv' = [inv EXCEPT ![p] = [next EXCEPT !.log = Append(@, ev)]]
    /\ out' = NoOut

\* the invocation of worker p answers its caller
Return(p, response, ev) ==
    /\ inv' = [inv EXCEPT ![p] = IdleInv]
    /\ out' = [req |-> inv[p].req, response |-> response,
               log |-> Append(inv[p].log, ev)]

\* ------------------------------------------------ POST /transcribe
TranscribeRequest(p) ==
    /\ Free(p)
    /\ \E id \in MemoIds, given \in RequestEnvironments :
          Begin(p, [kind |-> "transcribe", memoId |-> id,
                    environment |-> ParsedEnvironment(given),
                    recordType |-> Omitted], "get_memo")
    /\ UNCHANGED <<registry, db, files>>

\* (variant: the fetch sits inside the inner try, its failure is followed by
\* the write of status 'error')
GetMemoInsideTry(p) ==
    /\ inv[p].pc = "get_memo"
    /\ LET me == inv[p]
           e == HandlerEnv(me.req.environment)
           c == GetClient(e)
           id == me.req.memoId
       IN  IF ~c.ok
           THEN Return(p, ErrorResponse(id, 500, "processing_error", AccessorExc("get_memo")),
                       Event("resolve", c.env, FALSE, "none"))
           ELSE \E ok \in BOOLEAN :
                IF ~ok
                THEN Continue(p, [me EXCEPT !.pc = "set_error", !.env = e,
                                            !.e = Exc("BackendError", "get_memo")],
                              Event("fetch", c.env, FALSE, "none"))
                ELSE IF id \notin ExistingIds
                THEN Continue(p, [me EXCEPT !.pc = "set_error", !.env = e,
                                            !.e = Exc("NotFound", "get_memo")],
                              Event("fetch", c.env, TRUE, "none"))
                ELSE Continue(p, [me EXCEPT !.pc = "set_transcribing", !.env = e,
                                            !.memo = Kept(db[c.env][id])],
                              Event("fetch", c.env, TRUE, "none"))
    /\ UNCHANGED <<registry, db, files, started>>

\* Step 1: memo = await supabase_service.get_memo(request.memoId, env)
GetMemo(p) ==
    /\ inv[p].pc = "get_memo"
    /\ LET me == inv[p]
           e == HandlerEnv(me.req.environment)
           c == GetClient(e)
           id == me.req.memoId
       IN  IF ~c.ok
           THEN Return(p, ErrorResponse(inv[p].req.memoId, 500, "processing_error", AccessorExc("get_memo")),
                       Event("resolve", c.env, FALSE, "none"))
           ELSE \E ok \in BOOLEAN :
                IF ~ok
                THEN Return(p, ErrorResponse(inv[p].req.memoId, 500, "processing_error", Exc("BackendError", "get_memo")),
                            Event("fetch", c.env, FALSE, "none"))
                ELSE IF id \notin ExistingIds
                THEN Return(p, ErrorResponse(inv[p].req.memoId, 500, "processing_error", Exc("NotFound", "get_memo")),
                            Event("fetch", c.env, TRUE, "none"))
                ELSE Continue(p, [me EXCEPT !.pc = "set_transcribing", !.env = e,
                                            !.memo = Kept(db[c.env][id])],
                              Event("fetch", c.env, TRUE, "none"))
    /\ UNCHANGED <<registry, db, files, started>>

\* (variant: a failed write of 'transcribing' is swallowed and the workflow goes on)
SetTranscribingSwallow(p) ==
    /\ inv[p].pc = "set_transcribing"
    /\ LET me == inv[p]
           c == GetClient(me.env)
       IN  \E ok \in BOOLEAN :
           /\ db' = IF ok THEN UpdateRows(db, c.env, me.req.memoId, "transcribing", NoTranscript)
                          ELSE db
           /\ Continue(p, [me EXCEPT !.pc = "download"],
                       Event("set_transcribing", c.env, ok, "none"))
    /\ UNCHANGED <<registry, files, started>>

\* (variant: the write waits until the record is not 'transcribing')
SetTranscribingWaits(p) ==
    /\ inv[p].pc = "set_transcribing"
    /\ LET me == inv[p]
           c == GetClient(me.env)
       IN  /\ db[c.env][me.req.memoId].status # "transcribing"
           /\ \E ok \in BOOLEAN :
                IF ok
                THEN /\ db' = UpdateRows(db, c.env, me.req.memoId, "transcribing", NoTranscript)
                     /\ Continue(p, [me EXCEPT !.pc = "download"],
                                 Event("set_transcribing", c.env, TRUE, "none"))
                ELSE /\ UNCHANGED db
                     /\ Return(p, ErrorResponse(inv[p].req.memoId, 500, "processing_error",
                                                Exc("BackendError", "set_transcribing")),
                               Event("set_transcribing", c.env, FALSE, "none"))
    /\ UNCHANGED <<registry, files, started>>

\* Step 2: update_memo_status(request.memoId, "transcribing", environment=env)
\* outside the inner try: a failure goes straight to the outer handler
SetTranscribing(p) ==
    /\ inv[p].pc = "set_transcribing"
    /\ LET me == inv[p]
           c == GetClient(me.env)
       IN  \E ok \in BOOLEAN :
           IF ok
           THEN /\ db' = UpdateRows(db, c.env, me.req.memoId, "transcribing", NoTranscript)
                /\ Continue(p, [me EXCEPT !.pc = "download"],
                            Event("set_transcribing", c.env, TRUE, "none"))
           ELSE /\ UNCHANGED db
                /\ Return(p, ErrorResponse(inv[p].req.memoId, 500, "processing_error", Exc("BackendError", "set_transcribing")),
                          Event("set_transcribing", c.env, FALSE, "none"))
    /\ UNCHANGED <<registry, files, started>>

\* (variant: the download sits outside the inner try, its failure is not caught)
DownloadAudioUncaught(p) ==
    /\ inv[p].pc = "download"
    /\ LET me == inv[p]
           c == GetClient(me.env)
       IN  \E ok \in BOOLEAN :
           /\ files' = files \cup {NewFile}
           /\ IF ok
              THEN Continue(p, [me EXCEPT !.pc = "transcribe", !.path = NewFile],
                            Event("download", c.env, TRUE, NewFile))
              ELSE Return(p, ErrorResponse(inv[p].req.memoId, 500, "processing_error", Exc("BlobError", "download")),
                          Event("download", c.env, FALSE, NewFile))
    /\ UNCHANGED <<registry, db, started>>

\* Step 3: download_audio(memo['audio_url'], settings.TEMP_DIR, environment=env)
\* the scratch file is created (delete=False) before the blob is fetched
DownloadAudio(p) ==
    /\ inv[p].pc = "download"
    /\ LET me == inv[p]
           c == GetClient(me.env)
       IN  \E ok \in BOOLEAN :
           /\ files' = files \cup {NewFile}
           /\ IF ok
              THEN Continue(p, [me EXCEPT !.pc = "transcribe", !.path = NewFile],
                            Event("download", c.env, TRUE, NewFile))
              ELSE Continue(p, [me EXCEPT !.pc = "set_error", !.e = Exc("BlobError", "download")],
                            Event("download", c.env, FALSE, NewFile))
    /\ UNCHANGED <<registry, db, started>>

\* (variant: a failed call of the transcription API is repeated once)
TranscribeTwice(p) ==
    /\ inv[p].pc = "transcribe"
    /\ LET me == inv[p]
           again == \A i \in 1..Len(me.log) : me.log[i].op # "transcribe"
       IN  IF me.path \notin files
           THEN /\ Continue(p, [me EXCEPT !.pc = "set_error",
                                          !.e = Exc("FileNotFoundError", "transcribe")],
                            Event("exists", "local", FALSE, me.path))
                /\ UNCHANGED files
           ELSE \E ok \in BOOLEAN, text \in Texts :
                /\ files' = IF ~ok /\ again THEN files ELSE files \ {me.path}
                /\ IF ok
                   THEN Continue(p, [me EXCEPT !.pc = "set_completed", !.transcript = text],
                                 Event("transcribe", "api", TRUE, text))
                   ELSE IF again
                   THEN Continue(p, me, Event("transcribe", "api", FALSE, me.path))
                   ELSE Continue(p, [me EXCEPT !.pc = "set_error", !.e = Exc("APIError", "transcribe")],
                                 Event("transcribe", "api", FALSE, me.path))
    /\ UNCHANGED <<registry, db, started>>

\* (variant: the call of the transcription API stands outside the inner try,
\* its failure is answered without a write of status 'error')
TranscribeUncaught(p) ==
    /\ inv[p].pc = "transcribe"
    /\ LET me == inv[p]
       IN  IF me.path \notin files
           THEN /\ Continue(p, [me EXCEPT !.pc = "set_error",
                                          !.e = Exc("FileNotFoundError", "transcribe")],
                            Event("exists", "local", FALSE, me.path))
                /\ UNCHANGED files
           ELSE \E ok \in BOOLEAN, text \in Texts :
                /\ files' = files \ {me.path}
                /\ IF ok
                   THEN Continue(p, [me EXCEPT !.pc = "set_completed", !.transcript = text],
                                 Event("transcribe", "api", TRUE, text))
                   ELSE Return(p, ErrorResponse(inv[p].req.memoId, 500, "processing_error",
                                                Exc("APIError", "transcribe")),
                               Event("transcribe", "api", FALSE, me.path))
    /\ UNCHANGED <<registry, db, started>>

\* Step 4: transcription_service.transcribe(audio_file_path)
\* the finally clause removes the scratch file on success and on failure
Transcribe(p) ==
    /\ inv[p].pc = "transcribe"
    /\ LET me == inv[p]
       IN  IF me.path \notin files
           THEN /\ Continue(p, [me EXCEPT !.pc = "set_error",
                                          !.e = Exc("FileNotFoundError", "transcribe")],
                            Event("exists", "local", FALSE, me.path))
                /\ UNCHANGED files
           ELSE \E ok \in BOOLEAN, text \in Texts :
                /\ files' = files \ {me.path}
                /\ IF ok
                   THEN Continue(p, [me EXCEPT !.pc = "set_completed", !.transcript = text],
                                 Event("transcribe", "api", TRUE, text))
                   ELSE Continue(p, [me EXCEPT !.pc = "set_error", !.e = Exc("APIError", "transcribe")],
                                 Event("transcribe", "api", FALSE, me.path))
    /\ UNCHANGED <<registry, db, started>>

\* (variant: the final write sets the status and leaves the transcript out)
SetCompletedStatusOnly(p) ==
    /\ inv[p].pc = "set_completed"
    /\ LET me == inv[p]
           c == GetClient(me.env)
       IN  \E ok \in BOOLEAN :
           IF ok
           THEN /\ db' = UpdateRows(db, c.env, me.req.memoId, "completed", NoTranscript)
                /\ Return(p, SuccessResponse(me.req.memoId, me.transcript),
                          Event("set_completed", c.env, TRUE, "none"))
           ELSE /\ UNCHANGED db
                /\ Continue(p, [me EXCEPT !.pc = "set_error",
                                          !.e = Exc("BackendError", "set_completed")],
                            Event("set_completed", c.env, FALSE, "none"))
    /\ UNCHANGED <<registry, files, started>>

\* Step 5: update_memo_status(request.memoId, "completed", transcript, environment=env)
SetCompleted(p) ==
    /\ inv[p].pc = "set_completed"
    /\ LET me == inv[p]
           c == GetClient(me.env)
       IN  \E ok \in BOOLEAN :
           IF ok
           THEN /\ db' = UpdateRows(db, c.env, me.req.memoId, "completed", me.transcript)
                /\ Return(p, SuccessResponse(me.req.memoId, me.transcript),
                          Event("set_completed", c.env, TRUE, "none"))
           ELSE /\ UNCHANGED db
                /\ Continue(p, [me EXCEPT !.pc = "set_error",
                                          !.e = Exc("BackendError", "set_completed")],
                            Event("set_completed", c.env, FALSE, "none"))
    /\ UNCHANGED <<registry, files, started>>

\* (variant: the handler re-raises without writing status 'error')
SetErrorNoWrite(p) ==
    /\ inv[p].pc = "set_error"
    /\ LET me == inv[p]
           c == GetClient(me.env)
       IN  \E ok \in BOOLEAN :
           /\ UNCHANGED db
           /\ IF ok
              THEN Return(p, ErrorResponse(inv[p].req.memoId, 500, "processing_error", Annotate(me.e)),
                          Event("set_error", c.env, TRUE, "none"))
              ELSE Return(p, ErrorResponse(inv[p].req.memoId, 500, "processing_error", Exc("BackendError", "set_error")),
                          Event("set_error", c.env, FALSE, "none"))
    /\ UNCHANGED <<registry, files, started>>

\* (variant: the write of 'error' does not pass the environment on and goes
\* to the default environment)
SetErrorDefaultEnv(p) ==
    /\ inv[p].pc = "set_error"
    /\ LET me == inv[p]
           c == GetClient(None)
       IN  \E ok \in BOOLEAN :
           IF ok
           THEN /\ db' = UpdateRows(db, c.env, me.req.memoId, "error", NoTranscript)
                /\ Return(p, ErrorResponse(inv[p].req.memoId, 500, "processing_error", Annotate(me.e)),
                          Event("set_error", c.env, TRUE, "none"))
           ELSE /\ UNCHANGED db
                /\ Return(p, ErrorResponse(inv[p].req.memoId, 500, "processing_error",
                                           Exc("BackendError", "set_error")),
                          Event("set_error", c.env, FALSE, "none"))
    /\ UNCHANGED <<registry, files, started>>

\* inner except: update_memo_status(request.memoId, "error", environment=env),
\* then raise Exception(f"{error_type}: {str(e)}"); an exception of the status
\* write leaves the handler in place of the annotated one; the outer except
\* turns whichever exception arrives into HTTP 500 processing_error
SetError(p) ==
    /\ inv[p].pc = "set_error"
    /\ LET me == inv[p]
           c == GetClient(me.env)
       IN  \E ok \in BOOLEAN :
           IF ok
           THEN /\ db' = UpdateRows(db, c.env, me.req.memoId, "error", NoTranscript)
                /\ Return(p, ErrorResponse(inv[p].req.memoId, 500, "processing_error", Annotate(me.e)),
                          Event("set_error", c.env, TRUE, "none"))
           ELSE /\ UNCHANGED db
                /\ Return(p, ErrorResponse(inv[p].req.memoId, 500, "processing_error", Exc("BackendError", "set_error")),
                          Event("set_error", c.env, FALSE, "none"))
    /\ UNCHANGED <<registry, files, started>>

\* ------------------------------------------- POST /retry-transcribe
RetryRequest(p) ==
    /\ Free(p)
    /\ \E id \in MemoIds, given \in RequestEnvironments :
          Begin(p, [kind |-> "retry", memoId |-> id,
                    environment |-> ParsedEnvironment(given),
                    recordType |-> Omitted], "retry_get_memo")
    /\ UNCHANGED <<registry, db, files>>

\* memo = get_memo(request.memoId, env); reject unless memo['status'] == "error";
\* otherwise return await transcribe_audio(request)
RetryGate(p) ==
    /\ inv[p].pc = "retry_get_memo"
    /\ LET me == inv[p]
           e == HandlerEnv(me.req.environment)
           c == GetClient(e)
           id == me.req.memoId
       IN  IF ~c.ok
           THEN Return(p, ErrorResponse(inv[p].req.memoId, 500, "retry_error", AccessorExc("get_memo")),
                       Event("resolve", c.env, FALSE, "none"))
           ELSE \E ok \in BOOLEAN :
                IF ~ok
                THEN Return(p, ErrorResponse(inv[p].req.memoId, 500, "retry_error", Exc("BackendError", "get_memo")),
                            Event("fetch", c.env, FALSE, "none"))
                ELSE IF id \notin ExistingIds
                THEN Return(p, ErrorResponse(inv[p].req.memoId, 500, "retry_error", Exc("NotFound", "get_memo")),
                            Event("fetch", c.env, TRUE, "none"))
                ELSE IF ~Retryable(db[c.env][id].status)
                THEN Return(p, ErrorResponse(inv[p].req.memoId, 400, "invalid_retry", Exc("HTTPException", "retry")),
                            Event("fetch", c.env, TRUE, db[c.env][id].status))
                ELSE Continue(p, [me EXCEPT !.pc = "get_memo", !.env = e,
                                            !.memo = Kept(db[c.env][id])],
                              Event("fetch", c.env, TRUE, db[c.env][id].status))
    /\ UNCHANGED <<registry, db, files, started>>

\* --------------------------------------------- POST /transcribe_url
TranscribeUrlRequest(p) ==
    /\ Free(p)
    /\ \E id \in ExistingIds \cup {None}, header \in {None, "staging"},
          body \in UrlEnvNames \cup {Omitted, None} :
          LET r == [kind |-> "url", memoId |-> id,
                    environment |-> UrlEnvironment(header, body),
                    recordType |-> Omitted]
          IN  IF id = None
              THEN /\ started' = started + 1
                   /\ UNCHANGED inv
                   /\ out' = [req |-> r, log |-> <<>>,
                              response |-> ErrorResponse(None, 400, "memoId is required",
                                                         Exc("HTTPException", "transcribe_url"))]
              ELSE Begin(p, r, "url_download")
    /\ UNCHANGED <<registry, db, files>>

\* temp_file_path = download_audio(audio_url, TEMP_DIR, environment)
UrlDownload(p) ==
    /\ inv[p].pc = "url_download"
    /\ LET me == inv[p]
           c == GetClient(me.req.environment)
       IN  IF ~c.ok
           THEN /\ Return(p, ErrorResponse(inv[p].req.memoId, 500, "transcription_url_error", AccessorExc("download")),
                          Event("resolve", c.env, FALSE, "none"))
                /\ UNCHANGED files
           ELSE \E ok \in BOOLEAN :
                /\ files' = files \cup {NewFile}
                /\ IF ok
                   THEN Continue(p, [me EXCEPT !.pc = "url_transcribe", !.path = NewFile],
                                 Event("download", c.env, TRUE, NewFile))
                   ELSE Return(p, ErrorResponse(inv[p].req.memoId, 500, "transcription_url_error", Exc("BlobError", "download")),
                               Event("download", c.env, FALSE, NewFile))
    /\ UNCHANGED <<registry, db, started>>

\* transcript = transcription_service.transcribe_audio_file(temp_file_path):
\* TranscriptionService has no such method, the call raises AttributeError and
\* the status write and the removal of the scratch file below it never run
UrlTranscribe(p) ==
    /\ inv[p].pc = "url_transcribe"
    /\ Return(p, ErrorResponse(inv[p].req.memoId, 500, "transcription_url_error",
                               Exc("AttributeError", "transcribe_audio_file")),
              Event("attribute", "local", FALSE, inv[p].path))
    /\ UNCHANGED <<registry, db, files, started>>

\* ------------------------------------------------------------------ Next
Next ==
    \E p \in Procs :
        \/ TranscribeRequest(p)
        \/ GetMemo(p)
        \/ SetTranscribing(p)
        \/ DownloadAudio(p)
        \/ Transcribe(p)
        \/ SetCompleted(p)
        \/ SetError(p)
        \/ RetryRequest(p)
        \/ RetryGate(p)
        \/ TranscribeUrlRequest(p)
        \/ UrlDownload(p)
        \/ UrlTranscribe(p)

Spec == Init /\ [][Next]_vars

\* ------------------------------------------------ external calls return
\* the next step of the invocation on worker p: the external call it awaits
\* returns or fails and the handler runs on to its next await or its return
Step(p) ==
    \/ GetMemo(p)
    \/ SetTranscribing(p)
    \/ DownloadAudio(p)
    \/ Transcribe(p)
    \/ SetCompleted(p)
    \/ SetError(p)
    \/ RetryGate(p)
    \/ UrlDownload(p)
    \/ UrlTranscribe(p)

\* the service with production configured alone: requests for it run the
\* workflow, requests for any other environment fail at the registry
InitLive ==
    /\ Init
    /\ clients = {"production"}

\* every awaited call eventually returns or fails, and the event loop then
\* resumes the coroutine that awaits it
SpecLive ==
    InitLive /\ [][Next]_vars /\ \A p \in Procs : WF_vars(Step(p))

\* ------------------------------------------- a backend that takes writes
\* the step worker p takes ends with an external operation that succeeded
Succeeds(p) ==
    LET l == IF inv'[p].pc = "idle" THEN out'.log ELSE inv'[p].log
    IN  l[Len(l)].ok

\* the transcribe and retry handlers over a backend on which every
\* update_memo_status call succeeds (fetches, downloads and the transcription
\* API fail as before)
NextWritesSucceed ==
    \E p \in Procs :
        \/ TranscribeRequest(p)
        \/ RetryRequest(p)
        \/ GetMemo(p)
        \/ RetryGate(p)
        \/ SetTranscribing(p) /\ Succeeds(p)
        \/ DownloadAudio(p)
        \/ Transcribe(p)
        \/ SetCompleted(p) /\ Succeeds(p)
        \/ SetError(p) /\ Succeeds(p)

SpecWritesSucceed == Init /\ [][NextWritesSucceed]_vars

\* --------------------------------------- every record starts 'pending'
\* the service over records that are all new: status 'pending', no transcript
InitPending ==
    /\ Init
    /\ \A e \in Envs, id \in ExistingIds : db[e][id].status = "pending"

SpecPending == InitPending /\ [][Next]_vars

\* ------------------------------------- requests that name a record type
\* POST /transcribe with a recordType member in the body: TranscriptionRequest
\* declares memoId and environment only, the member is dropped on parsing and
\* the request runs as any other (req.recordType keeps what the body said)
TranscribeTypedRequest(p) ==
    /\ Free(p)
    /\ \E id \in MemoIds, type \in RecordTypes :
          Begin(p, [kind |-> "transcribe", memoId |-> id,
                    environment |-> ParsedEnvironment(Omitted),
                    recordType |-> type], "get_memo")
    /\ UNCHANGED <<registry, db, files>>

NextTyped ==
    \E p \in Procs :
        \/ TranscribeTypedRequest(p)
        \/ GetMemo(p)
        \/ SetTranscribing(p)
        \/ DownloadAudio(p)
        \/ Transcribe(p)
        \/ SetCompleted(p)
        \/ SetError(p)

SpecTyped == Init /\ [][NextTyped]_vars

\* ------------------------------------------- the registry on its own
\* values of the process-wide ENV setting the registry is constructed with
RegistrySystemEnvs == SystemEnvs \cup {"STAGING"}

\* arguments get_client and check_connection are called with
RegistryNames == Envs \cup {None, "", "qa", "PRODUCTION"}

\* a call of a registry operation with argument `environment`
RegistryCall(kind, environment) ==
    [kind |-> kind, memoId |-> None, environment |-> environment,
     recordType |-> None]

\* the call returned value b
Returns(b) == [NoResp EXCEPT !.success = b]

\* the call raised e
Raises(e) == [NoResp EXCEPT !.error = "raised", !.message = e]

\* the service object right after SupabaseService(); out records the ENV
\* value it was constructed under
InitRegistry ==
    /\ clients \in SUBSET Envs
    /\ \E system_env \in RegistrySystemEnvs :
          /\ default_environment = DefaultEnvironment(clients, system_env)
          /\ out = [req |-> RegistryCall("init", system_env),
                    response |-> NoResp, log |-> <<>>]
    /\ db = [e \in Envs |-> [id \in ExistingIds |->
                [status |-> "pending", transcript |-> NoTranscript,
                 audio_url |-> AudioUrl(id)]]]
    /\ files = {}
    /\ started = 0
    /\ inv = [p \in Procs |-> IdleInv]

\* get_client(environment): the client of the resolved name, or ValueError
ResolveCall ==
    /\ \E environment \in RegistryNames :
          LET c == GetClient(environment)
          IN  out' = [req |-> RegistryCall("resolve", environment),
                      response |-> IF c.ok THEN Returns(TRUE)
                                   ELSE Raises(Exc("ValueError", "get_client")),
                      log |-> <<Event("resolve", c.env, c.ok, "none")>>]
    /\ UNCHANGED <<registry, db, files, started, inv>>

\* check_connection(environment): True after a successful read, False when the
\* read raised; when get_client raised, the except handler reads the local
\* `branch` that was never bound and UnboundLocalError leaves the method
CheckConnection ==
    /\ \E environment \in RegistryNames :
          LET c == GetClient(environment)
              r == RegistryCall("check", environment)
          IN  IF ~c.ok
              THEN out' = [req |-> r,
                           response |-> Raises(Exc("UnboundLocalError", "check_connection")),
                           log |-> <<Event("resolve", c.env, FALSE, "none")>>]
              ELSE \E ok \in BOOLEAN :
                   out' = [req |-> r, response |-> Returns(ok),
                           log |-> <<Event("ping", c.env, ok, "none")>>]
    /\ UNCHANGED <<registry, db, files, started, inv>>

\* the payload of GET /health
HealthPayload ==
    [status |-> "healthy", service |-> "Dialect Transcription Service"]

\* GET /health: returns the fixed payload; neither check_connection of the
\* backend nor that of the transcription API is called
HealthCheck ==
    /\ out' = [req |-> RegistryCall("health", None),
               response |-> [Returns(TRUE) EXCEPT !.status = 200],
               log |-> <<Event("health", "local", TRUE, DOMAIN HealthPayload)>>]
    /\ UNCHANGED <<registry, db, files, started, inv>>

NextRegistry == ResolveCall \/ CheckConnection \/ HealthCheck

SpecRegistry == InitRegistry /\ [][NextRegistry]_vars

\* ------------------------------------- the storage path of a reference
\* longest audio reference tried, in pieces
MaxRefLen == 4

\* an audio reference is a sequence of pieces: the piece Bucket stands for an
\* occurrence of the text "audio_memos/", the others for text between them
Bucket == "audio_memos"
Pieces == {Bucket, "a", "b"}
AudioUrls == UNION {[1..n -> Pieces] : n \in 0..MaxRefLen}

\* str.split(sep): the pieces of s between the occurrences of sep
RECURSIVE Split(_, _)
Split(s, sep) ==
    IF \A i \in 1..Len(s) : s[i] # sep
    THEN <<s>>
    ELSE LET i == CHOOSE k \in 1..Len(s) :
                     s[k] = sep /\ \A j \in 1..(k - 1) : s[j] # sep
         IN  <<SubSeq(s, 1, i - 1)>> \o Split(SubSeq(s, i + 1, Len(s)), sep)

\* file_path of download_audio: path_parts[1] of the split when the
\* reference contains the bucket name, the reference itself otherwise
FilePath(audio_url) ==
    IF \E i \in 1..Len(audio_url) : audio_url[i] = Bucket
    THEN Split(audio_url, Bucket)[2]
    ELSE audio_url

\* the service before any request (every environment configured)
InitPath ==
    /\ Init
    /\ clients = Envs /\ default_environment = "production"
    /\ \A e \in Envs, id \in ExistingIds : db[e][id].status = "pending"

\* download_audio(audio_url, ...) up to the computation of file_path
ExtractPath ==
    /\ \E audio_url \in AudioUrls :
          out' = [req |-> RegistryCall("path", None), response |-> NoResp,
                  log |-> <<Event("path", "local", TRUE,
                                  [audio_url |-> audio_url,
                                   file_path |-> FilePath(audio_url)])>>]
    /\ UNCHANGED <<registry, db, files, started, inv>>

NextPath == ExtractPath

SpecPath == InitPath /\ [][NextPath]_vars

\* ---------------------------------------------------------------- views
\* every invocation the state knows: the running ones and the one that has
\* just answered
Running == {q \in Procs : inv[q].pc # "idle"}
Returned == out.req.kind # "none"

Views ==
    {[req |-> inv[q].req, log |-> inv[q].log, running |-> TRUE] : q \in Running}
    \cup (IF Returned THEN {[req |-> out.req, log |-> out.log, running |-> FALSE]}
                      ELSE {})

Workflow(r) == r.kind \in {"transcribe", "retry"}

\* the name an invocation hands to the registry
NamedEnv(r) == IF r.kind = "url" THEN r.environment ELSE HandlerEnv(r.environment)

Has(l, op, ok) == \E i \in 1..Len(l) : l[i].op = op /\ l[i].ok = ok
Last(l) == l[Len(l)]
Terminal == {"completed", "error"}

\* the status of the record the invocation that has just answered worked on
OutStatus == db[GetClient(NamedEnv(out.req)).env][out.req.memoId].status

C2_RetryRejected ==
    /\ \A v \in Views :
          (v.req.kind = "retry" /\ Len(v.log) >= 1 /\ v.log[1].op = "fetch"
              /\ v.log[1].ok /\ v.log[1].arg \notin {"error", "none"})
          => Len(v.log) = 1 /\ ~v.running
    /\ (Returned /\ out.req.kind = "retry" /\ Len(out.log) >= 1
            /\ out.log[1].op = "fetch" /\ out.log[1].ok
            /\ out.log[1].arg \notin {"error", "none"})
          => /\ out.response.status = 400
             /\ out.response.error = "invalid_retry"
             /\ ~out.response.success

C2_Witness ==
    /\ Returned /\ out.req.kind = "retry"
    /\ out.log = <<Event("fetch", out.log[1].env, TRUE, "transcribing")>>
    /\ out.response.status = 400

C4_ErrorLeftOnlyByRetry ==
    [][\A e \in Envs, id \in ExistingIds :
          (db[e][id].status = "error" /\ db'[e][id].status # "error")
          => \E q \in Procs : inv[q].req.kind = "retry" /\ inv'[q] # inv[q]]_vars

\* ------------------------------------------------------------------ C5
\* C5: an invocation that names an environment that is not configured issues
\* no read, write or download against any environment: resolving the name
\* fails, and the invocation answers with a failure.
C5_UnconfiguredFails ==
    /\ \A v \in Views :
          (Truthy(NamedEnv(v.req)) /\ Lower(NamedEnv(v.req)) \notin clients)
          => \A i \in 1..Len(v.log) :
                v.log[i].op = "resolve" /\ ~v.log[i].ok
                    /\ v.log[i].env = Lower(NamedEnv(v.req))
    /\ (Returned /\ out.req.memoId # None /\ Truthy(NamedEnv(out.req))
            /\ Lower(NamedEnv(out.req)) \notin clients)
          => ~out.response.success /\ Len(out.log) = 1

C5_Witness ==
    /\ Returned /\ out.req.memoId # None
    /\ Truthy(NamedEnv(out.req))
    /\ Lower(NamedEnv(out.req)) \notin clients
    /\ default_environment \in clients
    /\ out.log = <<Event("resolve", Lower(NamedEnv(out.req)), FALSE, "none")>>
    /\ ~out.response.success

\* ------------------------------------------------------------------ C6
\* C6: every fetch, status write and download that a transcribe or retry
\* request without an environment performs goes to the registry's default
\* environment.
C6_OmittedUsesDefault ==
    \A v \in Views :
        (Workflow(v.req) /\ v.req.environment \in {ParsedEnvironment(Omitted), None})
        => \A i \in 1..Len(v.log) :
              (v.log[i].ok /\ v.log[i].op \in {"fetch", "set_transcribing", "download",
                                                "set_completed", "set_error"})
              => v.log[i].env = default_environment

\* ------------------------------------------------------------------ C7
\* C7 (as stated): a failure of set-status-'transcribing', of the download or
\* of the transcription is followed by an attempted write of status 'error'
\* before the invocation answers.
C7_ErrorWriteAfterAnyFailure ==
    (Returned /\ Workflow(out.req))
    => \A i \in 1..Len(out.log) :
          (out.log[i].op \in {"set_transcribing", "download", "exists", "transcribe"}
              /\ ~out.log[i].ok)
          => \E j \in (i + 1)..Len(out.log) : out.log[j].op = "set_error"

\* C7 (amended): a failure of the download or of the transcription is
\* followed by an attempted write of status 'error' before the invocation
\* answers (with HTTP 500); a failure of set-status-'transcribing' is answered
\* at once, without that write.
C7_ErrorWriteAfterCaughtFailure ==
    /\ (Returned /\ Workflow(out.req))
       => \A i \in 1..Len(out.log) :
             /\ (out.log[i].op \in {"download", "exists", "transcribe"} /\ ~out.log[i].ok)
                => /\ i + 1 = Len(out.log)
                   /\ out.log[i + 1].op = "set_error"
                   /\ out.response.status = 500
             /\ (out.log[i].op = "set_transcribing" /\ ~out.log[i].ok)
                => i = Len(out.log) /\ out.response.status = 500
    /\ \A q \in Running :
          \A i \in 1..Len(inv[q].log) :
             (Workflow(inv[q].req)
                /\ inv[q].log[i].op \in {"set_transcribing", "download", "exists", "transcribe"}
                /\ ~inv[q].log[i].ok)
             => /\ inv[q].log[i].op # "set_transcribing"
                /\ i = Len(inv[q].log)
                /\ inv[q].pc = "set_error"

C7_Witness ==
    /\ Returned /\ Workflow(out.req)
    /\ Len(out.log) >= 2
    /\ out.log[Len(out.log) - 1].op = "transcribe"
    /\ ~out.log[Len(out.log) - 1].ok
    /\ Last(out.log).op = "set_error"

\* ------------------------------------------------------------------ C8
\* C8: when a step fails and the write of status 'error' fails too, the
\* failure answered to the caller is the one of the step, not the one of the
\* status write.
C8_OriginalErrorReported ==
    (Returned /\ Workflow(out.req) /\ Len(out.log) >= 2
        /\ Last(out.log).op = "set_error" /\ ~Last(out.log).ok)
    => /\ out.response.message.at # "set_error"
       /\ out.response.message.at \in {"download", "transcribe", "set_completed"}

\* ------------------------------------------------------------------ C9
\* C9: in a transcribe invocation a download (and a transcription call) is
\* issued only after a successful write of status 'transcribing'; after a
\* failed one the invocation answers without download or transcription call.
C9_DownloadAfterTranscribing ==
    \A v \in Views :
        Workflow(v.req)
        => /\ \A i \in 1..Len(v.log) :
                 v.log[i].op \in {"download", "transcribe"}
                 => \E j \in 1..(i - 1) :
                       v.log[j].op = "set_transcribing" /\ v.log[j].ok
           /\ \A j \in 1..Len(v.log) :
                 (v.log[j].op = "set_transcribing" /\ ~v.log[j].ok)
                 => j = Len(v.log) /\ ~v.running

C9_Witness ==
    /\ Returned /\ Workflow(out.req)
    /\ Last(out.log).op = "set_transcribing" /\ ~Last(out.log).ok
    /\ ~Has(out.log, "download", TRUE) /\ ~Has(out.log, "download", FALSE)
    /\ \E q \in Running : Has(inv[q].log, "download", TRUE)

\* ----------------------------------------------------------------- C10
\* C10: when a transcribe invocation returns, the scratch file created for it
\* no longer exists.
C10_ScratchFileRemoved ==
    (Returned /\ Workflow(out.req)) => LogFiles(out.log) \cap files = {}

\* ------------------------------------------------------------------ C11
\* number of events of operation op in a log
Count(l, op) == Cardinality({i \in 1..Len(l) : l[i].op = op})

\* the row the returned invocation worked on
OutRow == db[GetClient(NamedEnv(out.req)).env][out.req.memoId]

\* C11: when the fetch, the download and the transcription of a transcribe
\* invocation have succeeded, the next and only write of the outcome is one
\* update that carries status 'completed' together with the transcript; when
\* it succeeds the stored transcript is the text the transcription API
\* returned and the response reports success with the request's memoId and
\* that same text.
C11_CompletedInOneUpdate ==
    \A v \in Views : Workflow(v.req) =>
       \A i \in 1..Len(v.log) :
          (v.log[i].op = "transcribe" /\ v.log[i].ok) =>
             /\ Has(v.log, "fetch", TRUE) /\ Has(v.log, "download", TRUE)
             /\ Count(v.log, "set_completed") <= 1
             /\ i < Len(v.log) =>
                  /\ v.log[i + 1].op = "set_completed"
                  /\ v.log[i + 1].ok =>
                       /\ ~v.running /\ Len(v.log) = i + 1
                       /\ OutRow.status = "completed"
                       /\ OutRow.transcript = v.log[i].arg
                       /\ out.response = SuccessResponse(v.req.memoId, v.log[i].arg)
                       /\ out.response.success /\ out.response.status = 200

C11_Witness ==
    /\ Returned /\ out.req.kind = "transcribe"
    /\ out.response.success
    /\ out.response.transcript \in Texts
    /\ OutRow.transcript = out.response.transcript /\ OutRow.status = "completed"
    /\ Last(out.log).op = "set_completed"

\* ------------------------------------------------------------------ C12
\* C12: a transcribe request whose body names record type 'memo_replies'
\* fetches and writes its record in the replies collection only; none of its
\* operations on the record store names the memos collection.
C12_RepliesCollectionOnly ==
    \A v \in Views :
       (v.req.kind = "transcribe" /\ v.req.recordType = "memo_replies") =>
          \A i \in 1..Len(v.log) :
             v.log[i].table # "none" => v.log[i].table = "memo_replies"

\* ------------------------------------------------------------------ C13
\* the invocations in flight on record id of environment e
InFlightOn(e, id) ==
    {q \in Running : /\ inv[q].req.memoId = id
                     /\ GetClient(NamedEnv(inv[q].req)).env = e}

\* C13: in every reachable state, whatever the interleaving of concurrent
\* invocations, a record has status 'transcribing' only while exactly one
\* invocation is in flight on it (never none, never two or more).
C13_TranscribingHeldByOne ==
    \A e \in Envs, id \in ExistingIds :
       db[e][id].status = "transcribing" => Cardinality(InFlightOn(e, id)) = 1

\* ------------------------------------------------------------------ C14
\* C14: every change of a record's status follows the state machine: a record
\* becomes 'transcribing' only from another status, and 'completed' or
\* 'error' only from 'transcribing'; no step of any interleaving takes a
\* record from 'pending' to 'completed' or from 'completed' to 'error'.
C14_StatusMachine ==
    [][\A e \in Envs, id \in ExistingIds :
          db'[e][id].status # db[e][id].status =>
             \/ db'[e][id].status = "transcribing"
             \/ /\ db'[e][id].status \in Terminal
                /\ db[e][id].status = "transcribing"]_vars

\* ------------------------------------------------------------------ C15
\* the returned invocation is a retry that the gate rejected: its only
\* operation is a fetch that found the record with a status other than 'error'
InvalidRetry ==
    /\ out.req.kind = "retry"
    /\ Len(out.log) = 1
    /\ out.log[1].op = "fetch" /\ out.log[1].ok
    /\ out.log[1].arg \notin {"none", "error"}

\* C15: among the failures of transcribe and retry, the invalid retry is
\* answered with HTTP 400 and is the only one; every other failure of the two
\* operations is answered with HTTP 500.
C15_Only400IsInvalidRetry ==
    (Returned /\ Workflow(out.req) /\ ~out.response.success) =>
       /\ InvalidRetry => out.response.status = 400
       /\ ~InvalidRetry => out.response.status = 500
       /\ out.response.status = 400 <=> out.response.error = "invalid_retry"

C15_Witness ==
    /\ Returned /\ out.req.kind = "retry" /\ ~InvalidRetry
    /\ Len(out.log) = 1 /\ out.log[1].op = "fetch" /\ out.log[1].ok
    /\ out.response.status = 500

\* ------------------------------------------------------------------ C16
\* C16: every failure of a retry other than the invalid retry, a failure of
\* the gate's own fetch included, is answered with HTTP 500 and error code
\* 'processing_error'.
C16_RetryFailsAsTranscribe ==
    (Returned /\ out.req.kind = "retry" /\ ~out.response.success /\ ~InvalidRetry) =>
       /\ out.response.status = 500
       /\ out.response.error = "processing_error"

\* C16 (amended): such a failure is answered with HTTP 500; the error code is
\* 'retry_error' when the retry fails at its gate (the fetch of the record or
\* the resolution of the environment) and 'processing_error' when it fails
\* inside the transcribe workflow the gate hands over to.
C16_RetryFailureCodes ==
    (Returned /\ out.req.kind = "retry" /\ ~out.response.success /\ ~InvalidRetry) =>
       /\ out.response.status = 500
       /\ Len(out.log) = 1 => out.response.error = "retry_error"
       /\ Len(out.log) > 1 => out.response.error = "processing_error"

C16_Witness ==
    /\ Returned /\ out.req.kind = "retry" /\ ~InvalidRetry
    /\ out.log = <<Event("fetch", "production", FALSE, "none")>>
    /\ out.response.error = "retry_error"

\* ------------------------------------------------------------------ C17
\* C17: a transcribe_url invocation whose download succeeds and that meets no
\* failure of the transcription API answers success and leaves the record
\* 'completed' with the transcript stored, without ever fetching the record.
C17_UrlCompletes ==
    (/\ Returned /\ out.req.kind = "url"
     /\ Has(out.log, "download", TRUE)
     /\ ~Has(out.log, "transcribe", FALSE)) =>
       /\ out.response.success
       /\ OutRow.status = "completed"
       /\ OutRow.transcript = out.response.transcript
       /\ OutRow.transcript # NoTranscript
       /\ Count(out.log, "fetch") = 0

\* ------------------------------------------------------------------ C18
\* C18: check_connection never raises: whatever fails, an environment name
\* that is not configured and a failing read of the backend included, the call
\* returns false.
C18_PingNeverRaises ==
    out.req.kind = "check" =>
       /\ out.response.error # "raised"
       /\ ~Last(out.log).ok => out.response.success = FALSE

\* ------------------------------------------------------------------ C19
\* C19: at startup the default environment is the ENV setting (compared
\* without regard to case) when it names a configured environment; otherwise
\* it is the configured environment that no other configured one precedes in
\* the order production, staging, local.
C19_DefaultAtStartup ==
    out.req.kind = "init" =>
       LET name == Lower(out.req.environment)
       IN  /\ name \in clients => default_environment = name
           /\ (name \notin clients /\ clients # {}) =>
                \E i \in 1..Len(EnvOrder) :
                   /\ default_environment = EnvOrder[i]
                   /\ EnvOrder[i] \in clients
                   /\ \A j \in 1..(i - 1) : EnvOrder[j] \notin clients

C19_Witness ==
    /\ out.req.kind = "init"
    /\ out.req.environment = "development"
    /\ clients = {"staging", "local"}
    /\ default_environment = "staging"

\* ------------------------------------------------------------------ C20
\* C20: when the record fetch of a transcribe request fails, because no row
\* matches or because the backend fails, the request is answered with HTTP
\* 500, error 'processing_error' and the fetch's own error as message, and the
\* fetch stays its only operation: no status write, no download, no call of
\* the transcription API.
C20_FetchFailureStopsRequest ==
    \A v \in Views :
       (/\ v.req.kind = "transcribe" /\ Len(v.log) >= 1
        /\ v.log[1].op = "fetch"
        /\ (~v.log[1].ok \/ v.req.memoId \notin ExistingIds)) =>
          /\ ~v.running /\ Len(v.log) = 1
          /\ out.response.status = 500 /\ ~out.response.success
          /\ out.response.error = "processing_error"
          /\ out.response.message =
                Exc(IF v.log[1].ok THEN "NotFound" ELSE "BackendError", "get_memo")

C20_Witness ==
    /\ Returned /\ out.req.kind = "transcribe" /\ out.req.memoId \notin ExistingIds
    /\ out.log = <<Event("fetch", "production", TRUE, "none")>>
    /\ out.response.message.type = "NotFound"

\* ------------------------------------------------------------------ C21
\* C21: a record that starts 'pending' without a transcript holds a transcript
\* only while its status is 'completed': no sequence of invocations leaves a
\* record 'transcribing' or 'error' with a transcript.
C21_TranscriptOnlyWhenCompleted ==
    \A e \in Envs, id \in ExistingIds :
       db[e][id].transcript # NoTranscript => db[e][id].status = "completed"

\* ------------------------------------------------------------------ C22
\* C22: the storage path download computes from an audio reference is, for a
\* reference that contains the bucket prefix, everything after the first
\* occurrence of the prefix (the whole remainder, later occurrences of the
\* bucket name included) and, for a reference without the prefix, the
\* reference unchanged.
C22_PathIsRemainder ==
    out.req.kind = "path" =>
       LET url == out.log[1].arg.audio_url
           at == {i \in 1..Len(url) : url[i] = Bucket}
       IN  out.log[1].arg.file_path =
              IF at = {} THEN url
              ELSE LET first == CHOOSE i \in at : \A j \in at : i <= j
                   IN  SubSeq(url, first + 1, Len(url))

\* ------------------------------------------------------------------ C23
\* C23: no step is repeated inside an invocation: whatever fails, a
\* transcribe or retry invocation issues the audio download at most once and
\* calls the transcription API at most once.
C23_NoInternalRetry ==
    \A v \in Views : Workflow(v.req) =>
       /\ Count(v.log, "download") <= 1
       /\ Count(v.log, "transcribe") <= 1

C23_Witness ==
    /\ Returned /\ out.req.kind = "retry"
    /\ Has(out.log, "download", TRUE)
    /\ Has(out.log, "transcribe", FALSE)
    /\ Last(out.log).op = "set_error"

\* ------------------------------------------------------------------ C24
StatusWrites == {"set_transcribing", "set_completed", "set_error"}

\* C24: a status write is a partial update: a row changes only by a status
\* write of an invocation that works on that very row, the audio reference
\* never changes, and the transcript changes only by the write of 'completed'
\* that supplies it (writes of 'transcribing' and 'error' leave it as it was).
C24_PartialUpdate ==
    [][\A e \in Envs, id \in ExistingIds :
          LET old == db[e][id]
              new == db'[e][id]
          IN  /\ new.audio_url = old.audio_url
              /\ new # old =>
                   \E p \in Procs :
                      /\ inv[p].pc \in StatusWrites /\ inv'[p] # inv[p]
                      /\ inv[p].req.memoId = id
                      /\ GetClient(inv[p].env).env = e
              /\ new.transcript # old.transcript =>
                   \E p \in Procs :
                      /\ inv[p].pc = "set_completed" /\ inv'[p] # inv[p]
                      /\ new.transcript = inv[p].transcript]_vars

C24_Witness ==
    \E e \in Envs, id \in ExistingIds :
       /\ db[e][id].status = "error"
       /\ db[e][id].transcript \in Texts
       /\ Returned /\ Last(out.log) = Event("set_error", e, TRUE, "none")

\* ------------------------------------------------------------------ C25
\* C25: a registry with no configured environment is constructed without
\* error, and on it get_client fails for every argument, a name as well as
\* an omitted name.
C25_EmptyRegistryNeverResolves ==
    (clients = {} /\ out.req.kind = "resolve") =>
       /\ out.response.error = "raised"
       /\ out.response.message = Exc("ValueError", "get_client")
       /\ ~Last(out.log).ok

C25_Witness ==
    /\ clients = {} /\ default_environment = "production"
    /\ out.req = RegistryCall("resolve", None)
    /\ out.response.error = "raised"

\* ------------------------------------------------------------------ C26
\* C26: GET /health always answers successfully, and next to the service
\* field its payload reports the reachability of the backend and of the
\* transcription API in two fields of their own, 'supabase' and 'openai'.
C26_HealthReportsCollaborators ==
    out.req.kind = "health" =>
       /\ out.response.status = 200
       /\ {"service", "supabase", "openai"} \subseteq out.log[1].arg

\* ------------------------------------------------------------------ C27
\* C27: when a transcribe or retry request names an environment that is not
\* configured, the failure the caller receives is the registry's own
\* unknown-environment error (ValueError of get_client), not another error
\* raised while the record accessor handles it.
C27_UnknownEnvironmentReported ==
    (/\ Returned /\ Workflow(out.req)
     /\ Last(out.log).op = "resolve" /\ ~Last(out.log).ok) =>
       out.response.message = Exc("ValueError", "get_client")

\* ------------------------------------------------------------------ C28
\* the status a write step stores
Written(op) ==
    IF op = "set_transcribing" THEN "transcribing"
    ELSE IF op = "set_completed" THEN "completed" ELSE "error"

\* C28: status writes are not guarded: every status write that succeeds,
\* whatever the record's status and whatever other invocations are in flight
\* on it, leaves the record with the status it wrote, so the status of a
\* record is always the one of the chronologically last write (and two retry
\* invocations that both passed the gate each run the whole workflow).
C28_LastWriteWins ==
    [][\A p \in Procs :
          (inv[p].pc \in StatusWrites /\ inv'[p] # inv[p]) =>
             LET ev == IF inv'[p].pc = "idle" THEN Last(out'.log)
                       ELSE Last(inv'[p].log)
             IN  (ev.ok /\ ev.op = inv[p].pc) =>
                    db'[ev.env][inv[p].req.memoId].status = Written(ev.op)]_vars

\* two retries of one record both passed the gate on status 'error' and both
\* had the transcription API called
C28_Witness ==
    /\ Returned /\ out.req.kind = "retry"
    /\ out.log[1] = Event("fetch", "production", TRUE, "error")
    /\ Has(out.log, "transcribe", TRUE)
    /\ \E q \in Running :
          /\ inv[q].req = out.req
          /\ Len(inv[q].log) >= 1 /\ inv[q].log[1] = out.log[1]
          /\ Has(inv[q].log, "transcribe", TRUE)

\* ------------------------------------------------------------------ C29
\* C29: every invocation that has started eventually returns to its caller,
\* given that each external call eventually returns or fails; no invocation
\* waits on another one.
C29_EveryInvocationReturns ==
    \A p \in Procs : (inv[p].pc # "idle") ~> (inv[p].pc = "idle")

\* an invocation returned with success while another one is still in flight
C29_Witness ==
    /\ Returned /\ Workflow(out.req) /\ out.response.success
    /\ \E q \in Running : inv[q].pc = "set_transcribing"

\* ------------------------------------------------------------------ C30
\* C30: within one transcribe or retry invocation the fetch (the retry gate's
\* one included), every status write and the download all go to the
\* environment resolved from the request, and no step of the invocation
\* changes a record of any other environment.
C30_OneEnvironment ==
    [][\A p \in Procs :
          (inv'[p] # inv[p] /\ Workflow(inv[p].req)) =>
             LET target == GetClient(HandlerEnv(inv[p].req.environment)).env
                 ev == IF inv'[p].pc = "idle" THEN Last(out'.log)
                       ELSE Last(inv'[p].log)
             IN  /\ ev.op \in StatusWrites \cup {"fetch", "download"} => ev.env = target
                 /\ \A e \in Envs \ {target} : db'[e] = db[e]]_vars

C30_Witness ==
    /\ default_environment = "production" /\ clients = Envs
    /\ Returned /\ out.req.kind = "retry" /\ out.req.environment = "staging"
    /\ out.response.success
    /\ \A i \in 1..Len(out.log) :
          out.log[i].op # "transcribe" => out.log[i].env = "staging"
    /\ db["staging"][out.req.memoId].status = "completed"
    /\ db["production"][out.req.memoId].status = "error"

\* ------------------------------------------------------------------ C31
\* C31: when every status write succeeds, then whatever the number and the
\* interleaving of transcribe and retry invocations, once all of them have
\* returned no record is 'transcribing': a record an invocation wrote to is
\* 'completed' or 'error'.
C31_QuiescentNeverTranscribing ==
    Running = {} =>
       /\ \A e \in Envs, id \in ExistingIds : db[e][id].status # "transcribing"
       /\ (Returned /\ Has(out.log, "set_transcribing", TRUE)) =>
             OutRow.status \in Terminal

\* all invocations have returned; the last one ended with a write of 'error'
\* on a record that another one had completed
C31_Witness ==
    /\ Running = {} /\ started = MaxInvocations
    /\ Returned /\ Has(out.log, "set_transcribing", TRUE)
    /\ Last(out.log).op = "set_error"
    /\ OutRow.status = "error" /\ OutRow.transcript \in Texts

====
